---- MODULE Spec2Model ----
(***************************************************************************)
(* Model of the health-goal tracker of the HealthPrevent backend:          *)
(*   backend/models/HealthGoal.js        (schema, calculateProgress,       *)
(*                                        updateStreak)                    *)
(*   backend/controllers/goalController.js (createGoal, updateGoal,        *)
(*                                        deleteGoal, addCheckIn)          *)
(*   backend/services/aiService.js       (analyzeHealthMetrics and the     *)
(*                                        scoring helpers)                 *)
(*                                                                         *)
(* JavaScript values are modelled as records of one shape                  *)
(*   [kind, n, sys, dia]                                                   *)
(* kind "undef"  : undefined / absent field                                *)
(* kind "num"    : the number n                                            *)
(* kind "numstr" : a string whose parseFloat is n (such as "0" or "50")    *)
(* kind "str"    : a string whose parseFloat is NaN (such as "abc")        *)
(* kind "bp"     : the object {systolic: sys, diastolic: dia}              *)
(*                                                                         *)
(* A JavaScript number that a method returns is [t, v]: t = "num" with the *)
(* integer v, or "NaN", "-Infinity"; t = "TypeError" is a thrown           *)
(* TypeError.  Arithmetic is exact on integers; binary floating point      *)
(* rounding of v / t * 100 is outside the model.                           *)
(*                                                                         *)
(* Dates are integers counting hours.                                      *)
(***************************************************************************)
EXTENDS Integers, Sequences, FiniteSets, TLC

\* goal: the stored goal document; response: the result of the last call;
\* metrics: the metric samples health scoring is called on; requests: the
\* addCheckIn requests in flight, each with its position in the handler and
\* the document it holds in memory.
VARIABLES goal, response, metrics, requests

vars == <<goal, response, metrics, requests>>

---------------------------------------------------------------------------
(* JavaScript values *)

Undef == [kind |-> "undef", n |-> 0, sys |-> 0, dia |-> 0]

Num(x) == [kind |-> "num", n |-> x, sys |-> 0, dia |-> 0]

NumStr(x) == [kind |-> "numstr", n |-> x, sys |-> 0, dia |-> 0]

Str == [kind |-> "str", n |-> 0, sys |-> 0, dia |-> 0]

BP(s, d) == [kind |-> "bp", n |-> 0, sys |-> s, dia |-> d]

JsNum(x) == [t |-> "num", v |-> x]

JsNaN == [t |-> "NaN", v |-> 0]

JsNegInf == [t |-> "-Infinity", v |-> 0]

JsTypeError == [t |-> "TypeError", v |-> 0]

\* !x of JavaScript for the values of the model: undefined and the number 0
\* are falsy; objects and the non-empty strings "0", "50", "abc" are truthy.
Falsy(x) ==
  \/ x.kind = "undef"
  \/ x.kind = "num" /\ x.n = 0

\* isNaN(parseFloat(x)): parseFloat reads a number or the numeric prefix of
\* a string; undefined, "abc" and an object ("[object Object]") give NaN.
ParsesNaN(x) ==
  x.kind \in {"undef", "str", "bp"}

\* typeof x === 'object' && x !== null
IsObject(x) ==
  x.kind = "bp"

\* Math.round(n / d) for d # 0: the nearest integer, halves towards +Infinity.
MathRound(n, d) ==
  IF d > 0 THEN (2 * n + d) \div (2 * d)
  ELSE (2 * (0 - n) + (0 - d)) \div (2 * (0 - d))

Min(a, b) ==
  IF a <= b THEN a ELSE b

---------------------------------------------------------------------------
(* Array.prototype.sort((a, b) => new Date(b.date) - new Date(a.date)):   *)
(* descending by date, in place, stable (equal dates keep their order).   *)

\* Mutant of InsertDesc: a sort that is not stable, equal dates change places.
RECURSIVE InsertDescTiesReversed(_, _)
InsertDescTiesReversed(sorted, c) ==
  IF sorted = <<>> THEN <<c>>
  ELSE IF Head(sorted).date > c.date
       THEN <<Head(sorted)>> \o InsertDescTiesReversed(Tail(sorted), c)
       ELSE <<c>> \o sorted

RECURSIVE InsertDesc(_, _)
InsertDesc(sorted, c) ==
  IF sorted = <<>> THEN <<c>>
  ELSE IF Head(sorted).date >= c.date
       THEN <<Head(sorted)>> \o InsertDesc(Tail(sorted), c)
       ELSE <<c>> \o sorted

RECURSIVE SortDesc(_)
SortDesc(s) ==
  IF s = <<>> THEN <<>>
  ELSE InsertDesc(SortDesc(SubSeq(s, 1, Len(s) - 1)), s[Len(s)])

---------------------------------------------------------------------------
(* HealthGoalSchema.methods.calculateProgress *)

\* One day, the divisor 1000 * 60 * 60 * 24 of updateStreak, in hours.
HoursPerDay == 24

\* Mutant of NumericProgress: Math.floor in place of Math.round.
NumericProgressFloor(currentValue, targetValue) ==
  IF targetValue # 0
  THEN JsNum(Min(MathRound(currentValue * 200 - targetValue, 2 * targetValue), 100))
  ELSE IF currentValue > 0 THEN JsNum(100)
  ELSE IF currentValue = 0 THEN JsNaN
  ELSE JsNegInf

\* Mutant of NumericProgress: the operands of the division swapped.
NumericProgressSwapped(currentValue, targetValue) ==
  IF currentValue # 0
  THEN JsNum(Min(MathRound(targetValue * 100, currentValue), 100))
  ELSE JsNum(100)

\* Math.min(Math.round((currentValue / targetValue) * 100), 100) on the two
\* parsed numbers; a zero divisor gives Infinity, NaN or -Infinity.
NumericProgress(currentValue, targetValue) ==
  IF targetValue # 0
  THEN JsNum(Min(MathRound(currentValue * 100, targetValue), 100))
  ELSE IF currentValue > 0 THEN JsNum(100)
  ELSE IF currentValue = 0 THEN JsNaN
  ELSE JsNegInf

\* Mutant of BloodPressureProgress: the two percentages added, not averaged.
BloodPressureProgressSum(value, target) ==
  IF value.kind = "undef" THEN JsTypeError
  ELSE IF value.kind # "bp" THEN JsNaN
  ELSE JsNum(Min(MathRound((value.sys * target.dia + value.dia * target.sys) * 100,
                           target.sys * target.dia), 100))

\* The blood pressure branch: the mean of the systolic and the diastolic
\* percentage.  value.systolic of a number or a string is undefined (NaN in
\* the arithmetic); value.systolic of undefined throws.
BloodPressureProgress(value, target) ==
  IF value.kind = "undef" THEN JsTypeError
  ELSE IF value.kind # "bp" THEN JsNaN
  ELSE JsNum(Min(MathRound((value.sys * target.dia + value.dia * target.sys) * 100,
                           2 * target.sys * target.dia), 100))

\* Mutant of calculateProgress: a completed goal is computed as any other.
calculateProgressOfCompleted(g) ==
  IF Falsy(g.target) THEN JsNum(g.progress)
  ELSE IF Len(g.checkIns) = 0 THEN JsNum(0)
  ELSE LET latestCheckIn == SortDesc(g.checkIns)[1]
       IN  IF IsObject(g.current)
           THEN IF g.target.kind = "bp" /\ g.target.sys # 0 /\ g.target.dia # 0
                THEN BloodPressureProgress(latestCheckIn.value, g.target)
                ELSE JsNum(g.progress)
           ELSE IF ParsesNaN(latestCheckIn.value) \/ ParsesNaN(g.target)
                THEN JsNum(g.progress)
                ELSE NumericProgress(latestCheckIn.value.n, g.target.n)

\* Mutant of calculateProgress: 0 when a value does not parse as a number.
calculateProgressZeroOnNaN(g) ==
  IF Falsy(g.target) THEN JsNum(g.progress)
  ELSE IF g.status = "completed" THEN JsNum(100)
  ELSE IF Len(g.checkIns) = 0 THEN JsNum(0)
  ELSE LET latestCheckIn == SortDesc(g.checkIns)[1]
       IN  IF IsObject(g.current)
           THEN IF g.target.kind = "bp" /\ g.target.sys # 0 /\ g.target.dia # 0
                THEN BloodPressureProgress(latestCheckIn.value, g.target)
                ELSE JsNum(g.progress)
           ELSE IF ParsesNaN(latestCheckIn.value) \/ ParsesNaN(g.target)
                THEN JsNum(0)
                ELSE NumericProgress(latestCheckIn.value.n, g.target.n)

\* Mutant of calculateProgress: the latest check-in is the last one pushed.
calculateProgressLastPushed(g) ==
  IF Falsy(g.target) THEN JsNum(g.progress)
  ELSE IF g.status = "completed" THEN JsNum(100)
  ELSE IF Len(g.checkIns) = 0 THEN JsNum(0)
  ELSE LET latestCheckIn == g.checkIns[Len(g.checkIns)]
       IN  IF IsObject(g.current)
           THEN IF g.target.kind = "bp" /\ g.target.sys # 0 /\ g.target.dia # 0
                THEN BloodPressureProgress(latestCheckIn.value, g.target)
                ELSE JsNum(g.progress)
           ELSE IF ParsesNaN(latestCheckIn.value) \/ ParsesNaN(g.target)
                THEN JsNum(g.progress)
                ELSE NumericProgress(latestCheckIn.value.n, g.target.n)

\* Mutant of calculateProgress: the cached progress for an empty list.
calculateProgressCachedOnEmpty(g) ==
  IF Falsy(g.target) THEN JsNum(g.progress)
  ELSE IF g.status = "completed" THEN JsNum(100)
  ELSE IF Len(g.checkIns) = 0 THEN JsNum(g.progress)
  ELSE LET latestCheckIn == SortDesc(g.checkIns)[1]
       IN  IF IsObject(g.current)
           THEN IF g.target.kind = "bp" /\ g.target.sys # 0 /\ g.target.dia # 0
                THEN BloodPressureProgress(latestCheckIn.value, g.target)
                ELSE JsNum(g.progress)
           ELSE IF ParsesNaN(latestCheckIn.value) \/ ParsesNaN(g.target)
                THEN JsNum(g.progress)
                ELSE NumericProgress(latestCheckIn.value.n, g.target.n)

\* The value calculateProgress returns for goal document g.
calculateProgress(g) ==
  IF Falsy(g.target) THEN JsNum(g.progress)
  ELSE IF g.status = "completed" THEN JsNum(100)
  ELSE IF Len(g.checkIns) = 0 THEN JsNum(0)
  ELSE LET latestCheckIn == SortDesc(g.checkIns)[1]
       IN  IF IsObject(g.current)
           THEN IF g.target.kind = "bp" /\ g.target.sys # 0 /\ g.target.dia # 0
                THEN BloodPressureProgress(latestCheckIn.value, g.target)
                ELSE JsNum(g.progress)
           ELSE IF ParsesNaN(latestCheckIn.value) \/ ParsesNaN(g.target)
                THEN JsNum(g.progress)
                ELSE NumericProgress(latestCheckIn.value.n, g.target.n)

\* this.checkIns after calculateProgress: the sort of line 148 is in place.
calculateProgressCheckIns(g) ==
  IF Falsy(g.target) \/ g.status = "completed" \/ Len(g.checkIns) = 0
  THEN g.checkIns
  ELSE SortDesc(g.checkIns)

---------------------------------------------------------------------------
(* HealthGoalSchema.methods.updateStreak *)

\* Mutant of expectedDiff: no gap of days is the expected one of a custom goal.
expectedDiffCustomNone(frequency) ==
  IF frequency = "weekly" THEN 7
  ELSE IF frequency = "monthly" THEN 30
  ELSE IF frequency = "custom" THEN 0 - 1
  ELSE 1

expectedDiff(frequency) ==
  IF frequency = "weekly" THEN 7
  ELSE IF frequency = "monthly" THEN 30
  ELSE 1

\* Mutant of StreakLoop: prevDate stays the date of the latest check-in.
RECURSIVE StreakLoopPrevNotUpdated(_, _, _, _, _)
StreakLoopPrevNotUpdated(sortedCheckIns, i, prevDate, streak, frequency) ==
  IF i > Len(sortedCheckIns) THEN streak
  ELSE LET checkIn == sortedCheckIns[i]
           diffDays == MathRound(prevDate - checkIn.date, HoursPerDay)
       IN  IF ~checkIn.completed \/ diffDays # expectedDiff(frequency)
           THEN streak
           ELSE StreakLoopPrevNotUpdated(sortedCheckIns, i + 1, prevDate,
                                         streak + 1, frequency)

\* The loop of updateStreak from index i of the sorted check-ins.
RECURSIVE StreakLoop(_, _, _, _, _)
StreakLoop(sortedCheckIns, i, prevDate, streak, frequency) ==
  IF i > Len(sortedCheckIns) THEN streak
  ELSE LET checkIn == sortedCheckIns[i]
           diffDays == MathRound(prevDate - checkIn.date, HoursPerDay)
       IN  IF ~checkIn.completed \/ diffDays # expectedDiff(frequency)
           THEN streak
           ELSE StreakLoop(sortedCheckIns, i + 1, checkIn.date, streak + 1, frequency)

\* Mutant of updateStreak: the completed flag of the latest check-in is not
\* tested.
updateStreakLatestUntested(g) ==
  IF Len(g.checkIns) = 0 THEN 0
  ELSE LET sortedCheckIns == SortDesc(g.checkIns)
           latestCheckIn == sortedCheckIns[1]
       IN  StreakLoop(sortedCheckIns, 2, latestCheckIn.date, 1, g.frequency)

\* Mutant of updateStreak: the count starts at 0, not at 1.
updateStreakStartsAtZero(g) ==
  IF Len(g.checkIns) = 0 THEN 0
  ELSE LET sortedCheckIns == SortDesc(g.checkIns)
           latestCheckIn == sortedCheckIns[1]
       IN  IF ~latestCheckIn.completed THEN 0
           ELSE StreakLoop(sortedCheckIns, 2, latestCheckIn.date, 0, g.frequency)

\* The value updateStreak returns for goal document g.
updateStreak(g) ==
  IF Len(g.checkIns) = 0 THEN 0
  ELSE LET sortedCheckIns == SortDesc(g.checkIns)
           latestCheckIn == sortedCheckIns[1]
       IN  IF ~latestCheckIn.completed THEN 0
           ELSE StreakLoop(sortedCheckIns, 2, latestCheckIn.date, 1, g.frequency)

\* this.checkIns after updateStreak: the sort of line 183 is in place.
updateStreakCheckIns(g) ==
  SortDesc(g.checkIns)

---------------------------------------------------------------------------
(* The stored goal document and the handlers of goalController.js.  The    *)
(* requests of this specification carry a date and come from the goal's    *)
(* owner: the early returns 400, 404 and 401 of the handlers leave the     *)
(* stored document as it is.                                               *)

\* The most check-ins a goal holds in the model.
MaxCheckIns == 2

Statuses == {"active", "completed", "abandoned"}

Frequencies == {"daily", "weekly", "monthly", "custom"}

\* metrics.target of the request bodies.
GoalTargets == {Undef, Num(100)}

\* req.body of addCheckIn: date (hours), completed, value.
CheckInDates == {0, 24, 168, 720}

\* req.body.completed: true, false, absent, or the JSON string "false".
ReqCompleted == {"true", "false", "absent", "'false'"}

CheckInValues == {Num(50), Num(100), Num(0 - 50)}

\* if (x): the string "false" is a non-empty string and truthy.
Truthy(completed) ==
  completed \in {"true", "'false'"}

\* The Boolean cast of the schema on completed || false: mongoose casts
\* true to true, and false and the string "false" to false.
CastBoolean(completed) ==
  completed = "true"

NoGoal ==
  [exists |-> FALSE, status |-> "active", progress |-> 0,
   target |-> Undef, current |-> Undef, frequency |-> "daily", streak |-> 0,
   checkIns |-> <<>>, completedDate |-> FALSE]

\* The validators of the schema that save() runs on the computed progress:
\* a number (not NaN) with min 0 and max 100.
ValidProgress(p) ==
  p.t = "num" /\ p.v >= 0 /\ p.v <= 100

\* What the last request or method call gave back: the HTTP status of a
\* handler, or the value a method returned.
Respond(op, code) ==
  [op |-> op, code |-> code, ret |-> JsNum(0)]

Return(op, value) ==
  [op |-> op, code |-> 0, ret |-> value]

\* POST /api/goals: HealthGoal.create(req.body) with the schema defaults; the
\* body gives metrics.target and frequency.
createGoal(target, frequency) ==
  /\ ~goal.exists
  /\ goal' = [exists |-> TRUE, status |-> "active", progress |-> 0,
              target |-> target, current |-> Undef, frequency |-> frequency,
              streak |-> 0, checkIns |-> <<>>, completedDate |-> FALSE]
  /\ response' = Respond("createGoal", 201)
  /\ UNCHANGED <<metrics, requests>>

\* PUT /api/goals/:id: findByIdAndUpdate(id, req.body) sets the fields of the
\* body and recomputes nothing.
updateGoal(body) ==
  /\ goal.exists
  /\ response' = Respond("updateGoal", 200)
  /\ UNCHANGED <<metrics, requests>>
  /\ \/ /\ body.field = "status"
        /\ goal' = [goal EXCEPT !.status = body.status]
     \/ /\ body.field = "metrics.target"
        /\ goal' = [goal EXCEPT !.target = body.target]

UpdateBodies ==
  [field : {"status"}, status : Statuses, target : {Undef}]
    \cup [field : {"metrics.target"}, status : {"active"}, target : GoalTargets]

\* DELETE /api/goals/:id
deleteGoal ==
  /\ goal.exists
  /\ response' = Respond("deleteGoal", 200)
  /\ goal' = NoGoal
  /\ UNCHANGED <<metrics, requests>>

\* Mutant of Pushed: a check-in replaces the recorded check-ins of its date.
PushedReplacesSameDate(g, date, completed, value) ==
  [g EXCEPT !.checkIns = Append(SelectSeq(@, LAMBDA c : c.date # date),
                                [date |-> date,
                                 completed |-> CastBoolean(completed),
                                 value |-> value])]

\* goal.checkIns.push({date, completed: completed || false, value, notes})
Pushed(g, date, completed, value) ==
  [g EXCEPT !.checkIns = Append(@, [date |-> date,
                                    completed |-> CastBoolean(completed),
                                    value |-> value])]

\* Mutant of CheckedIn: the streak is taken before the check-in is pushed.
CheckedInStreakBeforePush(g, date, completed, value) ==
  LET pushed == Pushed(g, date, completed, value)
      progress == calculateProgress(pushed)
      afterProgress == [pushed EXCEPT !.checkIns = calculateProgressCheckIns(pushed),
                                      !.progress = progress.v]
      afterStreak == [afterProgress EXCEPT !.checkIns = updateStreakCheckIns(afterProgress),
                                           !.streak = updateStreak(g)]
  IN  IF progress.t = "num" /\ progress.v >= 100 /\ Truthy(completed)
      THEN [afterStreak EXCEPT !.status = "completed", !.completedDate = TRUE]
      ELSE afterStreak

\* Mutant of CheckedIn: the status is assigned on both branches, active when
\* the check-in does not complete the goal.
CheckedInResetsStatus(g, date, completed, value) ==
  LET pushed == Pushed(g, date, completed, value)
      progress == calculateProgress(pushed)
      afterProgress == [pushed EXCEPT !.checkIns = calculateProgressCheckIns(pushed),
                                      !.progress = progress.v]
      afterStreak == [afterProgress EXCEPT !.checkIns = updateStreakCheckIns(afterProgress),
                                           !.streak = updateStreak(afterProgress)]
  IN  IF progress.t = "num" /\ progress.v >= 100 /\ Truthy(completed)
      THEN [afterStreak EXCEPT !.status = "completed", !.completedDate = TRUE]
      ELSE [afterStreak EXCEPT !.status = "active"]

\* The document addCheckIn holds in memory before goal.save(): the pushed
\* check-in, the recomputed progress and streak, the status.  The two methods
\* sort goal.checkIns in place, so the sorted list is what save() stores.
CheckedIn(g, date, completed, value) ==
  LET pushed == Pushed(g, date, completed, value)
      progress == calculateProgress(pushed)
      afterProgress == [pushed EXCEPT !.checkIns = calculateProgressCheckIns(pushed),
                                      !.progress = progress.v]
      streak == updateStreak(afterProgress)
      afterStreak == [afterProgress EXCEPT !.checkIns = updateStreakCheckIns(afterProgress),
                                           !.streak = streak]
  IN  IF progress.t = "num" /\ progress.v >= 100 /\ Truthy(completed)
      THEN [afterStreak EXCEPT !.status = "completed", !.completedDate = TRUE]
      ELSE afterStreak

\* POST /api/goals/:id/checkin.  goal.save() validates the document: a
\* progress that is no number in 0..100 (or a TypeError thrown by
\* calculateProgress) ends the request with an error and stores nothing.
addCheckIn(date, completed, value) ==
  /\ goal.exists
  /\ Len(goal.checkIns) < MaxCheckIns
  /\ UNCHANGED <<metrics, requests>>
  /\ IF ValidProgress(calculateProgress(Pushed(goal, date, completed, value)))
     THEN /\ goal' = CheckedIn(goal, date, completed, value)
          /\ response' = Respond("addCheckIn", 200)
     ELSE /\ response' = Respond("addCheckIn", 500)
          /\ UNCHANGED goal

Init ==
  /\ goal = NoGoal
  /\ response = Respond("none", 0)
  /\ metrics = <<>>
  /\ requests = <<>>

Next ==
  \/ \E t \in GoalTargets, f \in Frequencies : createGoal(t, f)
  \/ \E body \in UpdateBodies : updateGoal(body)
  \/ deleteGoal
  \/ \E date \in CheckInDates, completed \in ReqCompleted, value \in CheckInValues :
       addCheckIn(date, completed, value)

Spec == Init /\ [][Next]_vars

---------------------------------------------------------------------------
(* Properties of the stored goal under the handlers (specification Spec)   *)

\* A step of a successful addCheckIn request.
AddCheckInStep ==
  response'.op = "addCheckIn" /\ response'.code = 200

\* A step of an updateGoal request that changes metrics.target.
UpdateTargetStep ==
  /\ \E body \in UpdateBodies : updateGoal(body)
  /\ goal'.target # goal.target

\* The indices of the check-ins of the maximum date.
MaxDateIndices(checkIns) ==
  {i \in 1..Len(checkIns) :
     \A j \in 1..Len(checkIns) : checkIns[j].date <= checkIns[i].date}

\* progress == calculateProgress(checkIns, target) of the specification, for
\* a positive numeric target and numeric check-in values: 0 for no check-in,
\* else round(latest.value / target * 100) capped at 100, latest being a
\* check-in of the maximum date.
ProgressIsRecomputation(g) ==
  (g.exists /\ g.target.kind = "num" /\ g.target.n > 0)
    => IF Len(g.checkIns) = 0
       THEN g.progress = 0
       ELSE \E i \in MaxDateIndices(g.checkIns) :
              g.progress = Min(MathRound(g.checkIns[i].value.n * 100, g.target.n), 100)

\* C1: after every mutation of a goal (an addCheckIn, or an updateGoal that
\* changes metrics.target) the stored progress equals the recomputation of
\* the specification from the check-in list and the target alone.  Stated
\* as a step property: a mutation from a state where the two agree leads to
\* a state where they agree.
C1_ProgressEqualsRecomputation ==
  [][(ProgressIsRecomputation(goal) /\ (AddCheckInStep \/ UpdateTargetStep))
       => ProgressIsRecomputation(goal')]_vars

\* C2: after every successful addCheckIn the stored streak equals updateStreak
\* recomputed over the stored check-in list and frequency.
C2_StreakEqualsRecomputation ==
  (response.op = "addCheckIn" /\ response.code = 200)
    => goal.streak = updateStreak(goal)

\* A weekly goal whose second check-in, one week after the first, brought
\* the streak to 2.
C2_Witness ==
  /\ response.op = "addCheckIn" /\ response.code = 200
  /\ goal.frequency = "weekly"
  /\ Len(goal.checkIns) = 2
  /\ goal.streak = 2

\* C3: for an active goal, a successful addCheckIn moves the status to
\* completed if and only if the recomputed progress is at least 100 and the
\* completed flag of the check-in just added is true; otherwise the status
\* stays active.
C3_CompletedIffProgressAndFlag ==
  [][\A date \in CheckInDates, completed \in ReqCompleted, value \in CheckInValues :
       (goal.status = "active" /\ addCheckIn(date, completed, value)
          /\ response'.code = 200)
         => /\ goal'.status \in {"active", "completed"}
            /\ goal'.status = "completed"
                 <=> (goal'.progress >= 100 /\ CastBoolean(completed))]_vars

\* C4: no addCheckIn moves a goal whose status is completed or abandoned back
\* to active.
C4_NeverBackToActive ==
  [][(goal.status \in {"completed", "abandoned"} /\ response'.op = "addCheckIn")
       => goal'.status \in {"completed", "abandoned"}]_vars

\* An abandoned goal that has taken a check-in and is still abandoned.
C4_Witness ==
  /\ response.op = "addCheckIn" /\ response.code = 200
  /\ goal.status = "abandoned"
  /\ Len(goal.checkIns) = 2

---------------------------------------------------------------------------
(* calculateProgress as a function of the goal document: the document is   *)
(* drawn from a bounded set of documents the schema admits, and the method *)
(* is called on it.                                                        *)

\* The most check-ins of a document calculateProgress is called on.
MaxProgressCheckIns == 2

ProgressTargets ==
  {Undef, Num(0), Num(100), Num(200), Num(10000), Num(0 - 100), NumStr(0), Str,
   BP(120, 80), BP(0, 80)}

ProgressCurrents == {Undef, BP(130, 85)}

\* The cached progress of the document.
CachedProgress == {0, 40}

ProgressValues ==
  {Undef, Num(0 - 50), Num(0 - 1), Num(1), Num(3), Num(50), Num(100), Num(150),
   Num(5000), Str, BP(120, 80), BP(100, 70)}

ProgressDates == {0, 24}

ProgressCheckIns ==
  [date : ProgressDates, completed : {TRUE}, value : ProgressValues]

SeqsUpTo(S, n) ==
  UNION {[1..k -> S] : k \in 0..n}

InitProgress ==
  /\ goal \in [exists : {TRUE}, status : Statuses, progress : CachedProgress,
               target : ProgressTargets, current : ProgressCurrents,
               frequency : {"daily"}, streak : {0},
               checkIns : SeqsUpTo(ProgressCheckIns, MaxProgressCheckIns),
               completedDate : {FALSE}]
  /\ response = Respond("none", 0)
  /\ metrics = <<>>
  /\ requests = <<>>

\* goal.calculateProgress(): the value returned, and the check-ins sorted in
\* place.
callCalculateProgress ==
  /\ response' = Return("calculateProgress", calculateProgress(goal))
  /\ goal' = [goal EXCEPT !.checkIns = calculateProgressCheckIns(goal)]
  /\ UNCHANGED <<metrics, requests>>

NextProgress ==
  callCalculateProgress

SpecProgress == InitProgress /\ [][NextProgress]_vars

---------------------------------------------------------------------------
(* Properties of calculateProgress (specification SpecProgress)            *)

CalledProgress ==
  response.op = "calculateProgress"

\* ret is min(round(n / d), 100) for d > 0, round being the nearest integer
\* with halves upwards: stated by the inequalities r <= n / d + 1/2 < r + 1.
IsCappedRound(ret, n, d) ==
  /\ ret.t = "num"
  /\ IF 2 * n + d >= 200 * d
     THEN ret.v = 100
     ELSE /\ 2 * ret.v * d <= 2 * n + d
          /\ 2 * n + d < 2 * (ret.v + 1) * d

\* C5: calculateProgress on a goal with an empty check-in list returns 0 for
\* any target (numeric, blood-pressure pair, or absent) and any status.
C5_EmptyReturnsZero ==
  (CalledProgress /\ Len(goal.checkIns) = 0) => response.ret = JsNum(0)

\* C5 as amended: on an empty check-in list calculateProgress returns 0 when
\* the target is present and not 0 and the status is not completed; it
\* returns 100 for a completed goal with such a target, and the cached
\* progress when the target is absent or 0.
C5_EmptyReturnsZeroUnlessCompletedOrNoTarget ==
  (CalledProgress /\ Len(goal.checkIns) = 0)
    => response.ret = IF Falsy(goal.target) THEN JsNum(goal.progress)
                      ELSE IF goal.status = "completed" THEN JsNum(100)
                      ELSE JsNum(0)

\* An abandoned blood-pressure goal without check-ins and a cached progress
\* of 40, for which the call returned 0.
C5_Witness ==
  /\ CalledProgress
  /\ Len(goal.checkIns) = 0
  /\ goal.target = BP(120, 80)
  /\ goal.status = "abandoned"
  /\ goal.progress = 40
  /\ response.ret = JsNum(0)

\* C6: for every numeric target t > 0 and numeric value v, calculateProgress
\* on a goal whose only check-in has value v returns
\* min(round(v / t * 100), 100).
C6_SingleCheckInPercent ==
  (/\ CalledProgress
   /\ Len(goal.checkIns) = 1
   /\ goal.target.kind = "num" /\ goal.target.n > 0
   /\ goal.checkIns[1].value.kind = "num")
    => IsCappedRound(response.ret, goal.checkIns[1].value.n * 100, goal.target.n)

\* C6 as amended: the same, for a goal whose status is not completed and
\* whose metrics.current is not an object.
C6_SingleCheckInPercentActive ==
  (/\ CalledProgress
   /\ Len(goal.checkIns) = 1
   /\ goal.target.kind = "num" /\ goal.target.n > 0
   /\ goal.checkIns[1].value.kind = "num"
   /\ goal.status # "completed"
   /\ ~IsObject(goal.current))
    => IsCappedRound(response.ret, goal.checkIns[1].value.n * 100, goal.target.n)

\* Target 10000 and a single check-in of value 5000: the call returned 50.
C6_Witness ==
  /\ CalledProgress
  /\ goal.status = "active"
  /\ goal.target = Num(10000)
  /\ Len(goal.checkIns) = 1
  /\ goal.checkIns[1].value = Num(5000)
  /\ response.ret = JsNum(50)

\* The value the blood-pressure formula
\*   min(round((v.sys / t.sys * 100 + v.dia / t.dia * 100) / 2), 100)
\* has for positive readings v: a zero divisor makes the sum Infinity, which
\* the cap turns into 100.
IsBloodPressurePercent(ret, v, t) ==
  IF t.sys = 0 \/ t.dia = 0
  THEN ret = JsNum(100)
  ELSE IsCappedRound(ret, (v.sys * t.dia + v.dia * t.sys) * 100, 2 * t.sys * t.dia)

\* C7: if the target is a {systolic, diastolic} pair, calculateProgress
\* returns min(round((latest.systolic / target.systolic * 100
\* + latest.diastolic / target.diastolic * 100) / 2), 100) for the latest
\* check-in (a check-in of the maximum date).
C7_BloodPressurePercent ==
  (/\ CalledProgress
   /\ Len(goal.checkIns) > 0
   /\ goal.target.kind = "bp"
   /\ \A i \in MaxDateIndices(goal.checkIns) : goal.checkIns[i].value.kind = "bp")
    => \E i \in MaxDateIndices(goal.checkIns) :
         IsBloodPressurePercent(response.ret, goal.checkIns[i].value, goal.target)

\* C7 as amended: the same, for a goal whose status is not completed, whose
\* metrics.current is an object and whose target has a non-zero systolic and
\* a non-zero diastolic.
C7_BloodPressurePercentObjectCurrent ==
  (/\ CalledProgress
   /\ Len(goal.checkIns) > 0
   /\ goal.target.kind = "bp"
   /\ \A i \in MaxDateIndices(goal.checkIns) : goal.checkIns[i].value.kind = "bp"
   /\ goal.status # "completed"
   /\ IsObject(goal.current)
   /\ goal.target.sys # 0 /\ goal.target.dia # 0)
    => \E i \in MaxDateIndices(goal.checkIns) :
         IsBloodPressurePercent(response.ret, goal.checkIns[i].value, goal.target)

\* Target {120, 80}, an older check-in of {100, 70} and the latest of
\* {120, 80}: the call returned 100.
C7_Witness ==
  /\ CalledProgress
  /\ goal.status = "active"
  /\ IsObject(goal.current)
  /\ goal.target = BP(120, 80)
  /\ Len(goal.checkIns) = 2
  /\ goal.checkIns[1].date > goal.checkIns[2].date
  /\ goal.checkIns[1].value = BP(120, 80)
  /\ goal.checkIns[2].value = BP(100, 70)
  /\ response.ret = JsNum(100)

\* C8: whenever the latest check-in value and the target are both numbers
\* (zero and negative numbers included), the result of calculateProgress is
\* an integer in 0..100.
C8_ProgressInRange ==
  (/\ CalledProgress
   /\ Len(goal.checkIns) > 0
   /\ goal.target.kind = "num"
   /\ \A i \in MaxDateIndices(goal.checkIns) : goal.checkIns[i].value.kind = "num")
    => /\ response.ret.t = "num"
       /\ response.ret.v >= 0
       /\ response.ret.v <= 100

\* The goal with the value of its latest check-in (the first in the order of
\* the sort) replaced by v.
WithLatestValue(g, v) ==
  [g EXCEPT !.checkIns = [SortDesc(g.checkIns) EXCEPT ![1].value = v]]

NumericValues ==
  {v \in ProgressValues : v.kind = "num"}

\* The result of the call is monotonic in the latest value: a greater value
\* gives no smaller progress, a smaller value no greater.
MonotonicInLatestValue ==
  \A v \in NumericValues :
    LET other == calculateProgress(WithLatestValue(goal, v))
        latest == SortDesc(goal.checkIns)[1].value
    IN  /\ other.t = "num" /\ response.ret.t = "num"
        /\ latest.n <= v.n => response.ret.v <= other.v
        /\ v.n <= latest.n => other.v <= response.ret.v

\* C9: for a fixed numeric target, calculateProgress is monotonic in the
\* latest check-in value: v1 <= v2 gives progress(v1) <= progress(v2).
C9_Monotonic ==
  (/\ CalledProgress
   /\ Len(goal.checkIns) > 0
   /\ goal.target.kind = "num"
   /\ SortDesc(goal.checkIns)[1].value.kind = "num")
    => MonotonicInLatestValue

\* C9 as amended: the same, for a fixed numeric target that is not negative.
C9_MonotonicNonNegativeTarget ==
  (/\ CalledProgress
   /\ Len(goal.checkIns) > 0
   /\ goal.target.kind = "num" /\ goal.target.n >= 0
   /\ SortDesc(goal.checkIns)[1].value.kind = "num")
    => MonotonicInLatestValue

\* Target 100 and a latest value of 50 gave 50, where the value 100 gives
\* the greater progress 100.
C9_Witness ==
  /\ CalledProgress
  /\ goal.status = "active"
  /\ ~IsObject(goal.current)
  /\ goal.target = Num(100)
  /\ Len(goal.checkIns) = 2
  /\ goal.checkIns[1].value = Num(50)
  /\ response.ret = JsNum(50)
  /\ calculateProgress(WithLatestValue(goal, Num(100))) = JsNum(100)

---------------------------------------------------------------------------
(* updateStreak as a function of the goal document: the check-in list, in  *)
(* any insertion order, and the frequency are drawn from bounded sets, and *)
(* the method is called on the document.                                   *)

\* The most check-ins of a document updateStreak is called on.
MaxStreakCheckIns == 3

\* Hours: days 0, 1, 2, the half days between them, one and two weeks, one
\* month.
StreakDates == {0, 12, 24, 36, 48, 168, 336, 720}

StreakCheckIns ==
  [date : StreakDates, completed : BOOLEAN, value : {Num(50)}]

InitStreak ==
  /\ goal \in [exists : {TRUE}, status : {"active"}, progress : {0},
               target : {Num(100)}, current : {Undef},
               frequency : Frequencies, streak : {0},
               checkIns : SeqsUpTo(StreakCheckIns, MaxStreakCheckIns),
               completedDate : {FALSE}]
  /\ response = Respond("none", 0)
  /\ metrics = <<>>
  /\ requests = <<>>

\* goal.updateStreak(): the value returned, and the check-ins sorted in place.
callUpdateStreak ==
  /\ response' = Return("updateStreak", JsNum(updateStreak(goal)))
  /\ goal' = [goal EXCEPT !.checkIns = updateStreakCheckIns(goal)]
  /\ UNCHANGED <<metrics, requests>>

NextStreak ==
  callUpdateStreak

SpecStreak == InitStreak /\ [][NextStreak]_vars

---------------------------------------------------------------------------
(* Properties of updateStreak (specification SpecStreak)                   *)

CalledStreak ==
  response.op = "updateStreak"

\* C10: updateStreak returns 0 when the check-in list is empty, and 0 whenever
\* the check-in of the maximum date has completed = false, whatever the
\* earlier check-ins are.  (Where several check-ins share the maximum date,
\* the case is that none of them is completed.)
C10_ZeroWhenLatestIncomplete ==
  (/\ CalledStreak
   /\ \A i \in MaxDateIndices(goal.checkIns) : ~goal.checkIns[i].completed)
    => response.ret = JsNum(0)

\* A daily goal with completed check-ins on days 0 and 1 and a check-in on
\* day 2 that is not completed: the call returned 0.
C10_Witness ==
  /\ CalledStreak
  /\ goal.frequency = "daily"
  /\ Len(goal.checkIns) = 3
  /\ goal.checkIns[1].date = 48 /\ ~goal.checkIns[1].completed
  /\ goal.checkIns[2].date = 24 /\ goal.checkIns[2].completed
  /\ goal.checkIns[3].date = 0 /\ goal.checkIns[3].completed
  /\ response.ret = JsNum(0)

---------------------------------------------------------------------------
(* updateStreak on evenly spaced check-ins: n completed check-ins, each    *)
(* one expected gap after the one before, pushed in any order.             *)

\* The most evenly spaced check-ins of a document.
MaxSpacedCheckIns == 5

\* The date (hours) of the first of the spaced check-ins: a midnight, a noon.
SpacedStarts == {0, 12}

\* The n check-ins of a goal of the frequency, from the start date on.
SpacedCheckIns(start, frequency, n) ==
  {[date |-> start + (k - 1) * expectedDiff(frequency) * HoursPerDay,
    completed |-> TRUE, value |-> Num(50)] : k \in 1..n}

\* The orders the n check-ins can have been pushed in.
InsertionOrders(S) ==
  {s \in [1..Cardinality(S) -> S] : \A i, j \in 1..Cardinality(S) :
                                      s[i] = s[j] => i = j}

InitSpaced ==
  /\ \E frequency \in {"daily", "weekly", "monthly"}, start \in SpacedStarts,
        n \in 0..MaxSpacedCheckIns :
       \E checkIns \in InsertionOrders(SpacedCheckIns(start, frequency, n)) :
         goal = [exists |-> TRUE, status |-> "active", progress |-> 0,
                 target |-> Num(100), current |-> Undef,
                 frequency |-> frequency, streak |-> 0,
                 checkIns |-> checkIns, completedDate |-> FALSE]
  /\ response = Respond("none", 0)
  /\ metrics = <<>>
  /\ requests = <<>>

SpecSpaced == InitSpaced /\ [][NextStreak]_vars

\* The check-ins are completed and, by date, each exactly one expected gap
\* of days after the one before.
EvenlySpaced(g) ==
  LET n == Len(g.checkIns)
      dates == {g.checkIns[i].date : i \in 1..n}
      gap == expectedDiff(g.frequency) * HoursPerDay
  IN  /\ g.frequency \in {"daily", "weekly", "monthly"}
      /\ \A i \in 1..n : g.checkIns[i].completed
      /\ Cardinality(dates) = n
      /\ \A d \in dates : \/ \A e \in dates : d <= e
                          \/ d - gap \in dates

\* C11: for n completed check-ins spaced exactly one expected gap apart (1,
\* 7 or 30 days for daily, weekly, monthly), pushed in any order,
\* updateStreak returns n.
C11_SpacedStreakIsCount ==
  (CalledStreak /\ EvenlySpaced(goal))
    => response.ret = JsNum(Len(goal.checkIns))

\* Five consecutive daily completed check-ins gave 5.
C11_Witness ==
  /\ CalledStreak
  /\ goal.frequency = "daily"
  /\ Len(goal.checkIns) = 5
  /\ EvenlySpaced(goal)
  /\ response.ret = JsNum(5)

---------------------------------------------------------------------------
(* aiService.js: health scoring of a list of metric samples.  A sample is  *)
(* a record of its type and its value; sleep is counted in hours.  An      *)
(* average is the pair of a sum n and a count d, compared with a           *)
(* threshold k as n against k * d, or it is NaN.                           *)

\* metrics.filter(m => m.type === type)
Filter(ms, type) ==
  SelectSeq(ms, LAMBDA m : m.type = type)

RECURSIVE SumValues(_)
SumValues(ms) ==
  IF ms = <<>> THEN 0 ELSE Head(ms).value.n + SumValues(Tail(ms))

\* ms.reduce((sum, m) => sum + parseFloat(m.value), 0) / ms.length for a
\* list that is not empty: NaN when one value parses to NaN.
Average(ms) ==
  IF \E i \in 1..Len(ms) : ParsesNaN(ms[i].value)
  THEN [t |-> "NaN", n |-> 0, d |-> 1]
  ELSE [t |-> "num", n |-> SumValues(ms), d |-> Len(ms)]

\* avg < k, avg > k, avg >= k, avg <= k: every comparison with NaN is false.
Less(avg, k) ==
  avg.t = "num" /\ avg.n < k * avg.d

Greater(avg, k) ==
  avg.t = "num" /\ avg.n > k * avg.d

AtLeast(avg, k) ==
  avg.t = "num" /\ avg.n >= k * avg.d

AtMost(avg, k) ==
  avg.t = "num" /\ avg.n <= k * avg.d

Max(a, b) ==
  IF a >= b THEN a ELSE b

\* Mutant of HeartRateModifier: the band of +5 leaves out the average 60.
HeartRateModifierOpenBand(ms) ==
  LET heartRateMetrics == Filter(ms, "heart_rate")
      avgHeartRate == Average(heartRateMetrics)
  IN  IF Len(heartRateMetrics) > 0
      THEN IF Less(avgHeartRate, 60) \/ Greater(avgHeartRate, 100) THEN 0 - 5
           ELSE IF Greater(avgHeartRate, 60) /\ AtMost(avgHeartRate, 80) THEN 5
           ELSE 0
      ELSE 0

\* calculateHealthScore, "Check heart rate"
HeartRateModifier(ms) ==
  LET heartRateMetrics == Filter(ms, "heart_rate")
      avgHeartRate == Average(heartRateMetrics)
  IN  IF Len(heartRateMetrics) > 0
      THEN IF Less(avgHeartRate, 60) \/ Greater(avgHeartRate, 100) THEN 0 - 5
           ELSE IF AtLeast(avgHeartRate, 60) /\ AtMost(avgHeartRate, 80) THEN 5
           ELSE 0
      ELSE 0

\* m.value.systolic < 120 && m.value.diastolic < 80: a property of a value
\* that is no object is undefined, and the comparison false.
optimalReadings(bpMetrics) ==
  SelectSeq(bpMetrics, LAMBDA m : /\ IsObject(m.value)
                                  /\ m.value.sys < 120
                                  /\ m.value.dia < 80)

\* calculateHealthScore, "Check blood pressure": percentOptimal > 0.8 is
\* optimal / all > 4 / 5, percentOptimal < 0.4 is optimal / all < 2 / 5.
BloodPressureModifier(ms) ==
  LET bpMetrics == Filter(ms, "blood_pressure")
      optimal == Len(optimalReadings(bpMetrics))
  IN  IF Len(bpMetrics) > 0
      THEN IF 5 * optimal > 4 * Len(bpMetrics) THEN 10
           ELSE IF 5 * optimal < 2 * Len(bpMetrics) THEN 0 - 10
           ELSE 0
      ELSE 0

\* calculateHealthScore, "Check sleep"
SleepModifier(ms) ==
  LET sleepMetrics == Filter(ms, "sleep")
      avgSleep == Average(sleepMetrics)
  IN  IF Len(sleepMetrics) > 0
      THEN IF AtLeast(avgSleep, 7) /\ AtMost(avgSleep, 9) THEN 8
           ELSE IF Less(avgSleep, 6) THEN 0 - 8
           ELSE IF Less(avgSleep, 7) THEN 0 - 4
           ELSE 0
      ELSE 0

\* calculateHealthScore, "Check activity level"
StepsModifier(ms) ==
  LET stepMetrics == Filter(ms, "steps")
      avgSteps == Average(stepMetrics)
  IN  IF Len(stepMetrics) > 0
      THEN IF AtLeast(avgSteps, 10000) THEN 10
           ELSE IF AtLeast(avgSteps, 7500) THEN 5
           ELSE IF Less(avgSteps, 5000) THEN 0 - 5
           ELSE 0
      ELSE 0

baseScore == 70

\* Mutant of calculateHealthScore: the score is not capped to 0..100.
calculateHealthScoreUncapped(ms) ==
  LET modifiers == HeartRateModifier(ms) + BloodPressureModifier(ms)
                     + SleepModifier(ms) + StepsModifier(ms)
      finalScore == baseScore + modifiers
  IN  MathRound(finalScore, 1)

calculateHealthScore(ms) ==
  LET modifiers == HeartRateModifier(ms) + BloodPressureModifier(ms)
                     + SleepModifier(ms) + StepsModifier(ms)
      finalScore == baseScore + modifiers
  IN  MathRound(Max(0, Min(100, finalScore)), 1)

\* avg.toFixed(1): the average in tenths, rounded; "NaN" for NaN.
ToFixed1(avg) ==
  IF avg.t = "NaN" THEN JsNaN ELSE JsNum(MathRound(10 * avg.n, avg.d))

\* Math.round(avg)
RoundedAverage(avg) ==
  IF avg.t = "NaN" THEN JsNaN ELSE JsNum(MathRound(avg.n, avg.d))

\* One sentence of generateObservations: its wording and the number in it.
Observation(sentence, shown) ==
  [sentence |-> sentence, shown |-> shown]

\* Mutant of generateObservations: the steps are looked at before the sleep.
generateObservationsStepsFirst(ms) ==
  LET heartRateMetrics == Filter(ms, "heart_rate")
      avgHeartRate == Average(heartRateMetrics)
      sleepMetrics == Filter(ms, "sleep")
      avgSleep == Average(sleepMetrics)
      stepMetrics == Filter(ms, "steps")
      avgSteps == Average(stepMetrics)
  IN  (IF Len(heartRateMetrics) = 0 THEN <<>>
       ELSE IF Less(avgHeartRate, 60)
            THEN <<Observation("heart rate below the typical resting range",
                               ToFixed1(avgHeartRate))>>
       ELSE IF Greater(avgHeartRate, 100)
            THEN <<Observation("heart rate above the typical resting range",
                               ToFixed1(avgHeartRate))>>
       ELSE <<Observation("heart rate within the normal resting range",
                          ToFixed1(avgHeartRate))>>)
      \o (IF Len(stepMetrics) = 0 THEN <<>>
          ELSE IF Less(avgSteps, 7000)
               THEN <<Observation("steps below the recommended 10,000 steps",
                                  RoundedAverage(avgSteps))>>
          ELSE <<Observation("a good activity level",
                             RoundedAverage(avgSteps))>>)
      \o (IF Len(sleepMetrics) = 0 THEN <<>>
          ELSE IF Less(avgSleep, 7)
               THEN <<Observation("sleep below the recommended 7-9 hours",
                                  ToFixed1(avgSleep))>>
          ELSE <<Observation("sleep meets the recommended guidelines",
                             ToFixed1(avgSleep))>>)

generateObservations(ms) ==
  LET heartRateMetrics == Filter(ms, "heart_rate")
      avgHeartRate == Average(heartRateMetrics)
      sleepMetrics == Filter(ms, "sleep")
      avgSleep == Average(sleepMetrics)
      stepMetrics == Filter(ms, "steps")
      avgSteps == Average(stepMetrics)
  IN  (IF Len(heartRateMetrics) = 0 THEN <<>>
       ELSE IF Less(avgHeartRate, 60)
            THEN <<Observation("heart rate below the typical resting range",
                               ToFixed1(avgHeartRate))>>
       ELSE IF Greater(avgHeartRate, 100)
            THEN <<Observation("heart rate above the typical resting range",
                               ToFixed1(avgHeartRate))>>
       ELSE <<Observation("heart rate within the normal resting range",
                          ToFixed1(avgHeartRate))>>)
      \o (IF Len(sleepMetrics) = 0 THEN <<>>
          ELSE IF Less(avgSleep, 7)
               THEN <<Observation("sleep below the recommended 7-9 hours",
                                  ToFixed1(avgSleep))>>
          ELSE <<Observation("sleep meets the recommended guidelines",
                             ToFixed1(avgSleep))>>)
      \o (IF Len(stepMetrics) = 0 THEN <<>>
          ELSE IF Less(avgSteps, 7000)
               THEN <<Observation("steps below the recommended 10,000 steps",
                                  RoundedAverage(avgSteps))>>
          ELSE <<Observation("a good activity level",
                             RoundedAverage(avgSteps))>>)

\* The sentences of identifyConcerns.
BloodPressureConcern ==
  "Several blood pressure readings are above the recommended range."

SleepConcern ==
  "Your sleep duration varies significantly from day to day."

ActivityConcern ==
  "Several days show lower-than-recommended physical activity levels."

\* Mutant of highReadings: both numbers have to be high.
highReadingsBoth(bpMetrics) ==
  SelectSeq(bpMetrics, LAMBDA m : /\ IsObject(m.value)
                                  /\ m.value.sys > 130 /\ m.value.dia > 80)

\* m.value.systolic > 130 || m.value.diastolic > 80
highReadings(bpMetrics) ==
  SelectSeq(bpMetrics, LAMBDA m : /\ IsObject(m.value)
                                  /\ (m.value.sys > 130 \/ m.value.dia > 80))

\* Math.abs(a.value - b.value) > 1.5: the values taken as numbers, the
\* comparison false when one of them is NaN.
DiffersOverOneAndAHalf(a, b) ==
  /\ ~ParsesNaN(a.value) /\ ~ParsesNaN(b.value)
  /\ LET diff == IF a.value.n >= b.value.n THEN a.value.n - b.value.n
                 ELSE b.value.n - a.value.n
     IN  2 * diff > 3

\* The count of the loop i = 1 .. length - 1 of identifyConcerns.
inconsistentNights(sleepMetrics) ==
  Cardinality({i \in 2..Len(sleepMetrics) :
                 DiffersOverOneAndAHalf(sleepMetrics[i], sleepMetrics[i - 1])})

\* Mutant of lowActivityDays: 5000 steps count as low activity.
lowActivityDaysInclusive(stepMetrics) ==
  SelectSeq(stepMetrics, LAMBDA m : ~ParsesNaN(m.value) /\ m.value.n <= 5000)

\* m.value < 5000
lowActivityDays(stepMetrics) ==
  SelectSeq(stepMetrics, LAMBDA m : ~ParsesNaN(m.value) /\ m.value.n < 5000)

\* Mutant of identifyConcerns: sleep consistency is tested from two sleep
\* samples on, against a third of the pairs.
identifyConcernsSleepByPairs(ms) ==
  LET bpMetrics == Filter(ms, "blood_pressure")
      sleepMetrics == Filter(ms, "sleep")
      stepMetrics == Filter(ms, "steps")
  IN  (IF /\ Len(bpMetrics) > 0
          /\ 2 * Len(highReadings(bpMetrics)) > Len(bpMetrics)
       THEN <<BloodPressureConcern>> ELSE <<>>)
      \o (IF /\ Len(sleepMetrics) > 1
             /\ 3 * inconsistentNights(sleepMetrics) > Len(sleepMetrics) - 1
          THEN <<SleepConcern>> ELSE <<>>)
      \o (IF /\ Len(stepMetrics) > 0
             /\ 2 * Len(lowActivityDays(stepMetrics)) > Len(stepMetrics)
          THEN <<ActivityConcern>> ELSE <<>>)

\* count > length / 2 is 2 * count > length; count > length / 3 is
\* 3 * count > length.
identifyConcerns(ms) ==
  LET bpMetrics == Filter(ms, "blood_pressure")
      sleepMetrics == Filter(ms, "sleep")
      stepMetrics == Filter(ms, "steps")
  IN  (IF /\ Len(bpMetrics) > 0
          /\ 2 * Len(highReadings(bpMetrics)) > Len(bpMetrics)
       THEN <<BloodPressureConcern>> ELSE <<>>)
      \o (IF /\ Len(sleepMetrics) > 3
             /\ 3 * inconsistentNights(sleepMetrics) > Len(sleepMetrics)
          THEN <<SleepConcern>> ELSE <<>>)
      \o (IF /\ Len(stepMetrics) > 0
             /\ 2 * Len(lowActivityDays(stepMetrics)) > Len(stepMetrics)
          THEN <<ActivityConcern>> ELSE <<>>)

\* analyzeHealthMetrics(data): the observations, the concerns and the health
\* score of data.metrics; the list is read and not changed.
analyzeHealthMetrics ==
  /\ response' = Return("analyzeHealthMetrics",
                        [observations |-> generateObservations(metrics),
                         concerns |-> identifyConcerns(metrics),
                         healthScore |-> calculateHealthScore(metrics)])
  /\ UNCHANGED <<goal, metrics, requests>>

NextScore ==
  analyzeHealthMetrics

Sample(type, value) ==
  [type |-> type, value |-> value]

\* The most samples of a list the health score is computed of.
MaxScoreMetrics == 4

\* Heart rates whose averages fall on and between 60, 80 and 100, and one
\* that is no number; an optimal and a non-optimal blood pressure; hours of
\* sleep whose averages fall on and between 6, 7 and 9; steps around 5000,
\* 7500 and 10000; a weight.
ScoreSamples ==
  {Sample("heart_rate", v) : v \in {Num(50), Num(70), Num(90), Num(110), Str}}
    \cup {Sample("blood_pressure", v) : v \in {BP(110, 70), BP(120, 80)}}
    \cup {Sample("sleep", Num(h)) : h \in {5, 7, 11}}
    \cup {Sample("steps", Num(n)) : n \in {4000, 6000, 9000, 11000}}
    \cup {Sample("weight", Num(70))}

InitScore ==
  /\ goal = NoGoal
  /\ response = Respond("none", 0)
  /\ metrics \in SeqsUpTo(ScoreSamples, MaxScoreMetrics)
  /\ requests = <<>>

SpecScore == InitScore /\ [][NextScore]_vars

---------------------------------------------------------------------------
(* Properties of the health score (specification SpecScore)                *)

Analyzed ==
  response.op = "analyzeHealthMetrics"

\* The values of the scored samples are numbers, those of blood pressure
\* pairs of numbers.
NumericSamples(ms) ==
  \A i \in 1..Len(ms) :
    IF ms[i].type = "blood_pressure" THEN ms[i].value.kind = "bp"
    ELSE ms[i].value.kind = "num"

\* The sum and the count of the values of one type.
TypeSum(ms, type) ==
  SumValues(Filter(ms, type))

TypeCount(ms, type) ==
  Len(Filter(ms, type))

\* The reference terms: the bands of the average S / n of a type, and of the
\* fraction of optimal blood pressure samples.
ReferenceHR(ms) ==
  LET S == TypeSum(ms, "heart_rate")
      n == TypeCount(ms, "heart_rate")
  IN  IF n = 0 THEN 0
      ELSE CASE S < 60 * n \/ S > 100 * n -> 0 - 5
             [] 60 * n <= S /\ S <= 80 * n -> 5
             [] 80 * n < S /\ S <= 100 * n -> 0

ReferenceBP(ms) ==
  LET n == TypeCount(ms, "blood_pressure")
      optimal == Cardinality({i \in 1..Len(ms) :
                                /\ ms[i].type = "blood_pressure"
                                /\ ms[i].value.sys < 120
                                /\ ms[i].value.dia < 80})
  IN  IF n = 0 THEN 0
      ELSE CASE 10 * optimal > 8 * n -> 10
             [] 10 * optimal < 4 * n -> 0 - 10
             [] 4 * n <= 10 * optimal /\ 10 * optimal <= 8 * n -> 0

ReferenceSleep(ms) ==
  LET S == TypeSum(ms, "sleep")
      n == TypeCount(ms, "sleep")
  IN  IF n = 0 THEN 0
      ELSE CASE 7 * n <= S /\ S <= 9 * n -> 8
             [] S < 6 * n -> 0 - 8
             [] 6 * n <= S /\ S < 7 * n -> 0 - 4
             [] S > 9 * n -> 0

ReferenceSteps(ms) ==
  LET S == TypeSum(ms, "steps")
      n == TypeCount(ms, "steps")
  IN  IF n = 0 THEN 0
      ELSE CASE S >= 10000 * n -> 10
             [] 7500 * n <= S /\ S < 10000 * n -> 5
             [] S < 5000 * n -> 0 - 5
             [] 5000 * n <= S /\ S < 7500 * n -> 0

ReferenceScore(ms) ==
  LET sum == 70 + ReferenceHR(ms) + ReferenceBP(ms) + ReferenceSleep(ms)
               + ReferenceSteps(ms)
  IN  IF sum < 0 THEN 0 ELSE IF sum > 100 THEN 100 ELSE sum

\* C12: for samples with numeric values the health score equals the
\* reference clamp(70 + HR + BP + SLEEP + STEPS, 0, 100), each term 0 when
\* its type has no sample: HR -5 for an average under 60 or over 100, +5 in
\* [60, 80], 0 in (80, 100]; BP +10 for more than 0.8 optimal samples, -10
\* for fewer than 0.4; SLEEP +8 in [7, 9], -8 under 6, -4 in [6, 7), 0 over
\* 9; STEPS +10 from 10000, +5 in [7500, 10000), -5 under 5000, 0 in
\* [5000, 7500).  Heart rate 70, sleep 8 and steps 11000 give 93.
C12_ScoreEqualsReference ==
  (Analyzed /\ NumericSamples(metrics))
    => response.ret.healthScore = ReferenceScore(metrics)

\* A heart rate of 70, nights of 5 and 11 hours, 11000 steps and no blood
\* pressure sample: 70 + 5 + 8 + 10 = 93.
C12_Witness ==
  /\ Analyzed
  /\ TypeCount(metrics, "heart_rate") = 1 /\ TypeSum(metrics, "heart_rate") = 70
  /\ TypeCount(metrics, "sleep") = 2 /\ TypeSum(metrics, "sleep") = 16
  /\ TypeCount(metrics, "steps") = 1 /\ TypeSum(metrics, "steps") = 11000
  /\ TypeCount(metrics, "blood_pressure") = 0
  /\ response.ret.healthScore = 93

\* C13: for samples with numeric values the health score is an integer of
\* 0..100, also where all four modifiers are at their greatest (70 + 5 + 10 +
\* 8 + 10) or at their least.
C13_ScoreInRange ==
  (Analyzed /\ NumericSamples(metrics))
    => response.ret.healthScore \in 0..100

\* All four modifiers at their greatest: 103 before the cap, 100 returned.
C13_Witness ==
  /\ Analyzed
  /\ NumericSamples(metrics)
  /\ HeartRateModifier(metrics) = 5
  /\ BloodPressureModifier(metrics) = 10
  /\ SleepModifier(metrics) = 8
  /\ StepsModifier(metrics) = 10
  /\ response.ret.healthScore = 100

---------------------------------------------------------------------------
(* identifyConcerns on lists of blood pressure, sleep and step samples     *)

\* The most samples of a list the concerns are identified of.
MaxConcernMetrics == 6

\* A blood pressure of exactly 130/80 and one high by its systolic number
\* alone; nights of 5, 6 and 8 hours (differences of 1, 2 and 3 hours); 4000
\* and exactly 5000 steps.
ConcernSamples ==
  {Sample("blood_pressure", v) : v \in {BP(130, 80), BP(140, 70)}}
    \cup {Sample("sleep", Num(h)) : h \in {5, 6, 8}}
    \cup {Sample("steps", Num(n)) : n \in {4000, 5000}}

InitConcerns ==
  /\ goal = NoGoal
  /\ response = Respond("none", 0)
  /\ metrics \in SeqsUpTo(ConcernSamples, MaxConcernMetrics)
  /\ requests = <<>>

SpecConcerns == InitConcerns /\ [][NextScore]_vars

---------------------------------------------------------------------------
(* Properties of the concerns (specification SpecConcerns)                 *)

\* The concern is one of the concerns returned.
Flagged(concern) ==
  \E i \in 1..Len(response.ret.concerns) : response.ret.concerns[i] = concern

\* The positions in ms of the samples of a type.
Positions(ms, type) ==
  {i \in 1..Len(ms) : ms[i].type = type}

\* The number of step samples under 5000.
LowStepSamples(ms) ==
  Cardinality({i \in Positions(ms, "steps") : ms[i].value.n < 5000})

\* C14: the low-activity concern is returned if and only if strictly more
\* than 50% of the step samples are under 5000: not when exactly 50% are, and
\* not when there is no step sample.
C14_LowActivityIffMajority ==
  Analyzed =>
    (Flagged(ActivityConcern)
       <=> 2 * LowStepSamples(metrics) > Cardinality(Positions(metrics, "steps")))

\* Four step samples of which exactly two are under 5000: no low-activity
\* concern.
C14_Witness ==
  /\ Analyzed
  /\ Cardinality(Positions(metrics, "steps")) = 4
  /\ LowStepSamples(metrics) = 2
  /\ ~Flagged(ActivityConcern)

\* The sleep samples in input order, and the number of consecutive pairs of
\* them that differ by more than 1.5 hours.
SleepSamples(ms) ==
  Filter(ms, "sleep")

VaryingPairs(ms) ==
  LET s == SleepSamples(ms)
  IN  Cardinality({i \in 1..(Len(s) - 1) :
                     \/ 2 * (s[i].value.n - s[i + 1].value.n) > 3
                     \/ 2 * (s[i + 1].value.n - s[i].value.n) > 3})

\* C15 as stated: for every number of sleep samples of 2 or more, the
\* sleep-variance concern is returned if and only if more than one third of
\* the consecutive pairs of sleep samples, in input order, differ by more
\* than 1.5 hours.
C15_SleepVarianceIffThirdOfPairs ==
  (Analyzed /\ Len(SleepSamples(metrics)) >= 2)
    => (Flagged(SleepConcern)
          <=> 3 * VaryingPairs(metrics) > Len(SleepSamples(metrics)) - 1)

\* C15 amended: the sleep-variance concern is returned if and only if there
\* are at least 4 sleep samples and the number of consecutive pairs, in
\* input order, that differ by more than 1.5 hours is more than one third of
\* the number of sleep samples.
C15_SleepVarianceFromFourSamples ==
  Analyzed =>
    (Flagged(SleepConcern)
       <=> /\ Len(SleepSamples(metrics)) >= 4
           /\ 3 * VaryingPairs(metrics) > Len(SleepSamples(metrics)))

\* Six nights of which exactly two consecutive pairs differ by more than 1.5
\* hours: two is more than a third of the five pairs and not more than a
\* third of the six samples, and the concern is not returned.
C15_Witness ==
  /\ Analyzed
  /\ Len(SleepSamples(metrics)) = 6
  /\ VaryingPairs(metrics) = 2
  /\ ~Flagged(SleepConcern)

\* The number of blood pressure samples over 130/80: systolic over 130 or
\* diastolic over 80.
HighPressureSamples(ms) ==
  Cardinality({i \in Positions(ms, "blood_pressure") :
                 ms[i].value.sys > 130 \/ ms[i].value.dia > 80})

\* The place of a concern in the order blood pressure, sleep, activity.
ConcernRank(concern) ==
  CASE concern = BloodPressureConcern -> 1
    [] concern = SleepConcern -> 2
    [] concern = ActivityConcern -> 3

\* C16: the high blood pressure concern is returned if and only if strictly
\* more than half of the blood pressure samples exceed 130/80 (exactly half
\* does not flag), whatever the sleep and step samples are; the concerns
\* returned are in the order blood pressure, sleep variance, low activity.
C16_HighPressureIffMajorityInOrder ==
  Analyzed =>
    /\ Flagged(BloodPressureConcern)
         <=> 2 * HighPressureSamples(metrics)
               > Cardinality(Positions(metrics, "blood_pressure"))
    /\ \A i, j \in 1..Len(response.ret.concerns) :
         i < j => ConcernRank(response.ret.concerns[i])
                    < ConcernRank(response.ret.concerns[j])

\* One high blood pressure sample, four nights that vary and one day of
\* 4000 steps: the three concerns, in their order.
C16_Witness ==
  /\ Analyzed
  /\ Cardinality(Positions(metrics, "blood_pressure")) = 1
  /\ HighPressureSamples(metrics) = 1
  /\ response.ret.concerns
       = <<BloodPressureConcern, SleepConcern, ActivityConcern>>

---------------------------------------------------------------------------
(* Repeated calls: calculateProgress, updateStreak and health scoring      *)
(* called, in any order and any number of times, on one goal document and  *)
(* one list of metric samples.                                             *)

\* The most check-ins of the goal, and the most samples of the list.
MaxCallCheckIns == 3

MaxCallMetrics == 2

\* Check-ins of day 0 and day 1, completed or not, with values 50 and 100.
CallCheckIns ==
  [date : {0, 24}, completed : BOOLEAN, value : {Num(50), Num(100)}]

CallSamples ==
  {Sample("heart_rate", Num(70)), Sample("sleep", Num(5))}

InitCalls ==
  /\ goal \in [exists : {TRUE}, status : {"active"}, progress : {0},
               target : {Num(100)}, current : {Undef},
               frequency : {"daily"}, streak : {0},
               checkIns : SeqsUpTo(CallCheckIns, MaxCallCheckIns),
               completedDate : {FALSE}]
  /\ response = Respond("none", 0)
  /\ metrics \in SeqsUpTo(CallSamples, MaxCallMetrics)
  /\ requests = <<>>

NextCalls ==
  \/ callCalculateProgress
  \/ callUpdateStreak
  \/ analyzeHealthMetrics

SpecCalls == InitCalls /\ [][NextCalls]_vars

---------------------------------------------------------------------------
(* Properties of repeated calls (specification SpecCalls)                  *)

C18_CallsLeaveGoalUnchanged ==
  [][response'.op \in {"calculateProgress", "updateStreak"}
       => goal' = goal]_vars

---------------------------------------------------------------------------
(* Properties of the streak count (specification SpecStreak)               *)

\* The gap of check-in b from the more recent check-in a is the expected
\* gap of the frequency: as an exact difference of the two dates, or as the
\* difference of their calendar days.
ExactGapMatches(a, b, frequency) ==
  a.date - b.date = expectedDiff(frequency) * HoursPerDay

CalendarGapMatches(a, b, frequency) ==
  (a.date \div HoursPerDay) - (b.date \div HoursPerDay) = expectedDiff(frequency)

\* The length of the run of check-ins from index i of the date-descending
\* list s on, each completed and at the expected gap from the one before.
RECURSIVE ExactRun(_, _, _)
ExactRun(s, i, frequency) ==
  IF i > Len(s) THEN 0
  ELSE IF s[i].completed /\ ExactGapMatches(s[i - 1], s[i], frequency)
       THEN 1 + ExactRun(s, i + 1, frequency)
       ELSE 0

RECURSIVE CalendarRun(_, _, _)
CalendarRun(s, i, frequency) ==
  IF i > Len(s) THEN 0
  ELSE IF s[i].completed /\ CalendarGapMatches(s[i - 1], s[i], frequency)
       THEN 1 + CalendarRun(s, i + 1, frequency)
       ELSE 0

\* C19: when the max-date check-in is completed, updateStreak returns 1 + k,
\* k the length of the longest run of check-ins immediately following it in
\* date-descending order, each completed and with a day-gap from the more
\* recent check-in exactly equal to the expected gap; the first incomplete
\* check-in or gap mismatch, a gap of 0 days from a second check-in on the
\* same day included, ends the count.  (The day-gap is taken either as the
\* exact difference of the dates or as the difference of the calendar days.)
C19_StreakIsOnePlusRun ==
  (/\ CalledStreak
   /\ goal.frequency \in {"daily", "weekly", "monthly"}
   /\ Len(goal.checkIns) > 0
   /\ \A i \in MaxDateIndices(goal.checkIns) : goal.checkIns[i].completed)
    => \/ response.ret
            = JsNum(1 + ExactRun(SortDesc(goal.checkIns), 2, goal.frequency))
       \/ response.ret
            = JsNum(1 + CalendarRun(SortDesc(goal.checkIns), 2, goal.frequency))

\* C20: for every check-in list and frequency, 0 <= streak <= number of
\* check-ins, and streak >= 1 exactly when the list is not empty and its
\* max-date check-in is completed.  (Where several check-ins share the
\* maximum date: the streak is at least 1 when all of them are completed and
\* 0 when none of them is.)
C20_StreakBounds ==
  CalledStreak =>
    /\ response.ret.t = "num"
    /\ 0 <= response.ret.v /\ response.ret.v <= Len(goal.checkIns)
    /\ (/\ Len(goal.checkIns) > 0
        /\ \A i \in MaxDateIndices(goal.checkIns) : goal.checkIns[i].completed)
         => response.ret.v >= 1
    /\ response.ret.v >= 1
         => \E i \in MaxDateIndices(goal.checkIns) : goal.checkIns[i].completed

\* Three weekly check-ins, all completed: the streak is 3, the number of
\* check-ins.
C20_Witness ==
  /\ CalledStreak
  /\ goal.frequency = "weekly"
  /\ Len(goal.checkIns) = 3
  /\ response.ret = JsNum(3)

\* C21 as stated: for a goal of frequency custom, updateStreak never returns
\* more than 1, whatever the dates and completed flags of the check-ins.
C21_CustomStreakAtMostOne ==
  (CalledStreak /\ goal.frequency = "custom")
    => (response.ret.t = "num" /\ response.ret.v <= 1)

\* C21 amended: for a goal of frequency custom the expected gap is 1 day:
\* updateStreak returns what it returns for the daily goal of the same
\* check-ins.
C21_CustomStreakAsDaily ==
  (CalledStreak /\ goal.frequency = "custom")
    => response.ret = JsNum(updateStreak([goal EXCEPT !.frequency = "daily"]))

\* A custom goal with completed check-ins on days 0, 1 and 2: the streak
\* is 3.
C21_Witness ==
  /\ CalledStreak
  /\ goal.frequency = "custom"
  /\ Len(goal.checkIns) = 3
  /\ \A i \in 1..3 : goal.checkIns[i].date = (3 - i) * HoursPerDay
  /\ response.ret = JsNum(3)

---------------------------------------------------------------------------
(* The latest check-in of calculateProgress (specification SpecProgress)   *)

\* The dates of the check-ins are pairwise distinct.
DistinctDates(checkIns) ==
  \A i, j \in 1..Len(checkIns) : checkIns[i].date = checkIns[j].date => i = j

\* The set of the check-ins of a list.
Elements(checkIns) ==
  {checkIns[i] : i \in 1..Len(checkIns)}

\* C22: calculateProgress takes the check-in of the maximum date as the
\* latest one: for check-ins of pairwise distinct dates the result is the
\* same for every insertion order of the same check-ins, and the same for
\* every value of a check-in that is not the one of the maximum date.
C22_LatestIsMaxDate ==
  (CalledProgress /\ DistinctDates(goal.checkIns))
    => /\ \A order \in InsertionOrders(Elements(goal.checkIns)) :
            calculateProgress([goal EXCEPT !.checkIns = order]) = response.ret
       /\ \A i \in (1..Len(goal.checkIns)) \ MaxDateIndices(goal.checkIns) :
            \A v \in ProgressValues :
              calculateProgress([goal EXCEPT !.checkIns[i].value = v])
                = response.ret

\* Target 100, a check-in of day 1 with value 50 and one of day 0 with value
\* 100: the call returned 50, the progress of the check-in of day 1.
C22_Witness ==
  /\ CalledProgress
  /\ goal.status = "active"
  /\ ~IsObject(goal.current)
  /\ goal.target = Num(100)
  /\ Len(goal.checkIns) = 2
  /\ goal.checkIns[1].date = 24 /\ goal.checkIns[1].value = Num(50)
  /\ goal.checkIns[2].date = 0 /\ goal.checkIns[2].value = Num(100)
  /\ response.ret = JsNum(50)

---------------------------------------------------------------------------
(* addCheckIn on a stored goal whose target is a number or a string, with  *)
(* check-in values that do not parse as numbers.                           *)

\* metrics.target: numbers, and a string that is no number.
CachedTargets == {Num(100), Num(0), Str}

\* The check-ins of the stored goal, and the requests: a value that is
\* absent, a string that is no number, numbers.
CachedCheckIns ==
  [date : {0, 24}, completed : BOOLEAN, value : {Num(50), Str}]

CachedDates == {0, 48}

CachedValues == {Undef, Str, Num(50), Num(0 - 50)}

\* A stored goal: its list is as the last save left it, sorted, and the
\* streak is the one of the list; the progress is the cached one.
InitCached ==
  /\ \E status \in Statuses, progress \in CachedProgress,
        target \in CachedTargets, current \in ProgressCurrents,
        checkIns \in SeqsUpTo(CachedCheckIns, 1) :
       goal = [exists |-> TRUE, status |-> status, progress |-> progress,
               target |-> target, current |-> current, frequency |-> "daily",
               streak |-> updateStreak([checkIns |-> checkIns,
                                        frequency |-> "daily"]),
               checkIns |-> SortDesc(checkIns),
               completedDate |-> (status = "completed")]
  /\ response = Respond("none", 0)
  /\ metrics = <<>>
  /\ requests = <<>>

CachedCompleted == {"true", "absent"}

NextCached ==
  \E date \in CachedDates, completed \in CachedCompleted, value \in CachedValues :
    addCheckIn(date, completed, value)

SpecCached == InitCached /\ [][NextCached]_vars

\* The target of document g is a number or a string, and the value of the
\* latest check-in of g or the target does not parse as a number.
FailsToParse(g) ==
  /\ g.target.kind \in {"num", "numstr", "str"}
  /\ Len(g.checkIns) > 0
  /\ ParsesNaN(SortDesc(g.checkIns)[1].value) \/ ParsesNaN(g.target)

---------------------------------------------------------------------------
(* The status and the check-in list under addCheckIn (specification Spec)  *)

\* C24: the only status transition computed on a check-in append is active
\* to completed: a goal whose status is abandoned keeps the status abandoned
\* under every addCheckIn, whatever progress and completed flag the check-in
\* carries.
C24_AbandonedStaysAbandoned ==
  [][(AddCheckInStep /\ goal.status = "abandoned")
       => goal'.status = "abandoned"]_vars

\* How often check-in c is in the list.
Occurrences(c, checkIns) ==
  Cardinality({i \in 1..Len(checkIns) : checkIns[i] = c})

\* C25: the check-in list is append-only under addCheckIn: a successful
\* addCheckIn makes the list longer by exactly one, and every check-in
\* recorded before is in the list afterwards with its date, completed flag
\* and value unchanged.
C25_AppendOnly ==
  [][AddCheckInStep
       => /\ Len(goal'.checkIns) = Len(goal.checkIns) + 1
          /\ \A i \in 1..Len(goal.checkIns) :
               Occurrences(goal.checkIns[i], goal'.checkIns)
                 >= Occurrences(goal.checkIns[i], goal.checkIns)]_vars

\* Two check-ins of the same date with different values are both in the
\* list.
C25_Witness ==
  /\ response.op = "addCheckIn" /\ response.code = 200
  /\ Len(goal.checkIns) = 2
  /\ goal.checkIns[1].date = goal.checkIns[2].date
  /\ goal.checkIns[1].value # goal.checkIns[2].value

---------------------------------------------------------------------------
(* Properties of the observations (specification SpecScore)                *)

\* The metric type a sentence of generateObservations is about, as its
\* place in the order heart_rate, sleep, steps.
ObservationRank(observation) ==
  CASE observation.sentence \in
         {"heart rate below the typical resting range",
          "heart rate above the typical resting range",
          "heart rate within the normal resting range"} -> 1
    [] observation.sentence \in
         {"sleep below the recommended 7-9 hours",
          "sleep meets the recommended guidelines"} -> 2
    [] observation.sentence \in
         {"steps below the recommended 10,000 steps",
          "a good activity level"} -> 3

RankedType(rank) ==
  CASE rank = 1 -> "heart_rate" [] rank = 2 -> "sleep" [] rank = 3 -> "steps"

\* C26: generateObservations returns the empty sequence for the empty input,
\* and otherwise at most one sentence for each of the types heart_rate, sleep
\* and steps that the input has a sample of, in the order heart_rate, sleep,
\* steps; samples of other types add no sentence.
C26_ObservationsPerTypeInOrder ==
  Analyzed =>
    LET observations == response.ret.observations
    IN  /\ metrics = <<>> => observations = <<>>
        /\ \A i, j \in 1..Len(observations) :
             i < j => ObservationRank(observations[i])
                        < ObservationRank(observations[j])
        /\ \A i \in 1..Len(observations) :
             \E k \in 1..Len(metrics) :
               metrics[k].type = RankedType(ObservationRank(observations[i]))

\* Samples of steps, blood pressure, sleep and heart rate, in this order:
\* three sentences, about the heart rate, the sleep and the steps.
C26_Witness ==
  /\ Analyzed
  /\ Len(metrics) = 4
  /\ metrics[1].type = "steps" /\ metrics[2].type = "blood_pressure"
  /\ metrics[3].type = "sleep" /\ metrics[4].type = "heart_rate"
  /\ Len(response.ret.observations) = 3
  /\ ObservationRank(response.ret.observations[1]) = 1
  /\ ObservationRank(response.ret.observations[3]) = 3

---------------------------------------------------------------------------
(* The check-in path: a goal is created and then only given check-ins.     *)

NextCheckInPath ==
  \/ \E t \in GoalTargets, f \in Frequencies : createGoal(t, f)
  \/ \E date \in CheckInDates, completed \in ReqCompleted, value \in CheckInValues :
       addCheckIn(date, completed, value)

SpecCheckInPath == Init /\ [][NextCheckInPath]_vars

\* C27: completion is absorbing for the check-in path: once the status of a
\* goal is completed, every later addCheckIn leaves the status completed and
\* stores the progress 100, whatever the date, value and completed flag of
\* the check-in; hence status = completed implies progress = 100 in every
\* state reached by addCheckIn from an active goal.
C27_CompletionAbsorbing ==
  /\ [](goal.status = "completed" => goal.progress = 100)
  /\ [][(response'.op = "addCheckIn" /\ goal.status = "completed")
          => (goal'.status = "completed" /\ goal'.progress = 100)]_vars

\* A completed goal with target 100 whose latest check-in has the value 50:
\* the progress stored is 100.
C27_Witness ==
  /\ response.op = "addCheckIn" /\ response.code = 200
  /\ goal.status = "completed"
  /\ Len(goal.checkIns) = 2
  /\ SortDesc(goal.checkIns)[1].value = Num(50)
  /\ goal.progress = 100

---------------------------------------------------------------------------
(* The handlers of goalController.js with their early returns: a request   *)
(* is made by a user that the protect middleware has authenticated, names  *)
(* a goal by its id, and is answered with an HTTP status and data.  The     *)
(* collection holds at most one goal, the goal of id "goal", whose field   *)
(* user is its owner.                                                      *)

Users == {"u1", "u2"}

\* req.params.id: the id of the stored goal, and an id of no document.
GoalId == "goal"

RequestIds == {GoalId, "unknown"}

\* req.body.date of a request that has no date.
NoDate == 0 - 1

RequestDates == {NoDate, 0}

RequestCompleted == {"true"}

RequestValues == {Num(100), Num(0 - 50)}

\* The response of a handler: res.status(code).json({data}) with the goals
\* in data, or next(new ErrorResponse(message, code)) with none.
Reply(op, code, data) ==
  [op |-> op, code |-> code, ret |-> data]

\* HealthGoal.findById(id)
Found(id) ==
  goal.exists /\ id = GoalId

\* A stored goal of a user.
StoredGoal(user, status, target) ==
  [exists |-> TRUE, status |-> status, progress |-> 0, target |-> target,
   current |-> Undef, frequency |-> "daily", streak |-> 0, checkIns |-> <<>>,
   completedDate |-> FALSE, user |-> user]

InitRequests ==
  /\ \/ goal = NoGoal
     \/ \E user \in Users, status \in Statuses :
          goal = StoredGoal(user, status, Num(100))
  /\ response = Respond("none", 0)
  /\ metrics = <<>>
  /\ requests = <<>>

\* GET /api/goals: HealthGoal.find({user: req.user.id})
getGoals(user) ==
  /\ response' = Reply("getGoals", 200,
                       IF goal.exists /\ goal.user = user
                       THEN <<goal>> ELSE <<>>)
  /\ UNCHANGED <<goal, metrics, requests>>

\* Mutant of getGoal: the owner of the goal is not compared with the user.
getGoalOfAnyUser(user, id) ==
  /\ response' = IF ~Found(id) THEN Reply("getGoal", 404, <<>>)
                 ELSE Reply("getGoal", 200, <<goal>>)
  /\ UNCHANGED <<goal, metrics, requests>>

\* GET /api/goals/:id
getGoal(user, id) ==
  /\ response' = IF ~Found(id) THEN Reply("getGoal", 404, <<>>)
                 ELSE IF goal.user # user THEN Reply("getGoal", 401, <<>>)
                 ELSE Reply("getGoal", 200, <<goal>>)
  /\ UNCHANGED <<goal, metrics, requests>>

\* PUT /api/goals/:id with a body that gives a status
updateGoalRequest(user, id, status) ==
  /\ IF ~Found(id)
     THEN response' = Reply("updateGoal", 404, <<>>) /\ UNCHANGED goal
     ELSE IF goal.user # user
     THEN response' = Reply("updateGoal", 401, <<>>) /\ UNCHANGED goal
     ELSE /\ goal' = [goal EXCEPT !.status = status]
          /\ response' = Reply("updateGoal", 200, <<goal'>>)
  /\ UNCHANGED <<metrics, requests>>

\* DELETE /api/goals/:id
deleteGoalRequest(user, id) ==
  /\ IF ~Found(id)
     THEN response' = Reply("deleteGoal", 404, <<>>) /\ UNCHANGED goal
     ELSE IF goal.user # user
     THEN response' = Reply("deleteGoal", 401, <<>>) /\ UNCHANGED goal
     ELSE /\ goal' = NoGoal
          /\ response' = Reply("deleteGoal", 200, <<>>)
  /\ UNCHANGED <<metrics, requests>>

\* Mutant of addCheckInRequest: the goal is looked up before the date of the
\* body is tested.
addCheckInRequestLookupFirst(user, id, date, completed, value) ==
  /\ IF ~Found(id)
     THEN response' = Reply("addCheckIn", 404, <<>>) /\ UNCHANGED goal
     ELSE IF goal.user # user
     THEN response' = Reply("addCheckIn", 401, <<>>) /\ UNCHANGED goal
     ELSE IF date = NoDate
     THEN response' = Reply("addCheckIn", 400, <<>>) /\ UNCHANGED goal
     ELSE /\ Len(goal.checkIns) < MaxCheckIns
          /\ IF ValidProgress(calculateProgress(Pushed(goal, date, completed, value)))
             THEN /\ goal' = CheckedIn(goal, date, completed, value)
                  /\ response' = Reply("addCheckIn", 200, <<goal'>>)
             ELSE /\ response' = Reply("addCheckIn", 500, <<>>)
                  /\ UNCHANGED goal
  /\ UNCHANGED <<metrics, requests>>

\* POST /api/goals/:id/checkin
addCheckInRequest(user, id, date, completed, value) ==
  /\ IF date = NoDate
     THEN response' = Reply("addCheckIn", 400, <<>>) /\ UNCHANGED goal
     ELSE IF ~Found(id)
     THEN response' = Reply("addCheckIn", 404, <<>>) /\ UNCHANGED goal
     ELSE IF goal.user # user
     THEN response' = Reply("addCheckIn", 401, <<>>) /\ UNCHANGED goal
     ELSE /\ Len(goal.checkIns) < MaxCheckIns
          /\ IF ValidProgress(calculateProgress(Pushed(goal, date, completed, value)))
             THEN /\ goal' = CheckedIn(goal, date, completed, value)
                  /\ response' = Reply("addCheckIn", 200, <<goal'>>)
             ELSE /\ response' = Reply("addCheckIn", 500, <<>>)
                  /\ UNCHANGED goal
  /\ UNCHANGED <<metrics, requests>>

\* GET /api/goals/stats: the counts of the user's goals by status, and the
\* longest streak of the user's active goals.
getGoalStats(user) ==
  LET goalsOf(status) ==
        IF goal.exists /\ goal.user = user /\ goal.status = status
        THEN <<goal>> ELSE <<>>
      goals == goalsOf("active")
  IN  /\ response' = Reply("getGoalStats", 200,
                           <<[activeGoals |-> Len(goalsOf("active")),
                              completedGoals |-> Len(goalsOf("completed")),
                              abandonedGoals |-> Len(goalsOf("abandoned")),
                              longestStreak |-> IF Len(goals) > 0
                                                THEN goals[1].streak ELSE 0]>>)
      /\ UNCHANGED <<goal, metrics, requests>>

NextRequests ==
  \/ \E user \in Users : getGoals(user)
  \/ \E user \in Users, id \in RequestIds : getGoal(user, id)
  \/ \E user \in Users, id \in RequestIds, status \in Statuses :
       updateGoalRequest(user, id, status)
  \/ \E user \in Users, id \in RequestIds : deleteGoalRequest(user, id)
  \/ \E user \in Users, id \in RequestIds, date \in RequestDates,
        completed \in RequestCompleted, value \in RequestValues :
       addCheckInRequest(user, id, date, completed, value)
  \/ \E user \in Users : getGoalStats(user)

SpecRequests == InitRequests /\ [][NextRequests]_vars

---------------------------------------------------------------------------
(* Properties of the handlers (specification SpecRequests)                 *)

\* C28: a rejected addCheckIn changes nothing: a request with no date is
\* answered 400, one for an id of no goal 404, one of a user who is not the
\* owner 401, and the stored goal (checkIns, progress, streak, status,
\* completedDate) is then unchanged; the date is tested before the goal is
\* looked up, so that a request with no date is answered 400 whatever its id
\* and user are.
C28_RejectedCheckInChangesNothing ==
  [][\A user \in Users, id \in RequestIds, date \in RequestDates,
        completed \in RequestCompleted, value \in RequestValues :
       addCheckInRequest(user, id, date, completed, value)
         => /\ date = NoDate => response'.code = 400
            /\ (date # NoDate /\ ~Found(id)) => response'.code = 404
            /\ (date # NoDate /\ Found(id) /\ goal.user # user)
                 => response'.code = 401
            /\ response'.code \in {400, 404, 401} => goal' = goal]_vars

\* A request with no date was answered 400 where no goal is stored.
C28_Witness ==
  /\ response.op = "addCheckIn" /\ response.code = 400
  /\ ~goal.exists

\* The user of the request is not the owner of the goal of the id.
NotOwner(user, id) ==
  Found(id) /\ goal.user # user

\* The answer 401 with no data, the stored goal unchanged.
Unauthorized ==
  /\ response'.code = 401
  /\ response'.ret = <<>>
  /\ goal' = goal

\* getGoals and getGoalStats use the goals of the user only.
ListsOwnGoalsOnly ==
  \A user \in Users :
    /\ getGoals(user)
         => \A i \in 1..Len(response'.ret) : response'.ret[i].user = user
    /\ (getGoalStats(user) /\ ~(goal.exists /\ goal.user = user))
         => response'.ret = <<[activeGoals |-> 0, completedGoals |-> 0,
                               abandonedGoals |-> 0, longestStreak |-> 0]>>

\* C29 as stated: for getGoal, updateGoal, deleteGoal and addCheckIn, when
\* the user of the request is not goal.user the operation returns 401,
\* returns none of the data of the goal and leaves the stored goal unchanged;
\* getGoals and getGoalStats only use goals whose user is the requester.
C29_OnlyTheOwner ==
  [][/\ \A user \in Users, id \in RequestIds :
          /\ (getGoal(user, id) /\ NotOwner(user, id)) => Unauthorized
          /\ (deleteGoalRequest(user, id) /\ NotOwner(user, id)) => Unauthorized
          /\ \A status \in Statuses :
               (updateGoalRequest(user, id, status) /\ NotOwner(user, id))
                 => Unauthorized
          /\ \A date \in RequestDates, completed \in RequestCompleted,
                value \in RequestValues :
               (/\ addCheckInRequest(user, id, date, completed, value)
                /\ NotOwner(user, id))
                 => Unauthorized
     /\ ListsOwnGoalsOnly]_vars

\* C29 amended: as stated, but an addCheckIn request with no date is
\* answered 400, not 401, with no data and the stored goal unchanged.
C29_OnlyTheOwnerOrNoDate ==
  [][/\ \A user \in Users, id \in RequestIds :
          /\ (getGoal(user, id) /\ NotOwner(user, id)) => Unauthorized
          /\ (deleteGoalRequest(user, id) /\ NotOwner(user, id)) => Unauthorized
          /\ \A status \in Statuses :
               (updateGoalRequest(user, id, status) /\ NotOwner(user, id))
                 => Unauthorized
          /\ \A date \in RequestDates, completed \in RequestCompleted,
                value \in RequestValues :
               (/\ addCheckInRequest(user, id, date, completed, value)
                /\ NotOwner(user, id))
                 => /\ response'.code = IF date = NoDate THEN 400 ELSE 401
                    /\ response'.ret = <<>>
                    /\ goal' = goal
     /\ ListsOwnGoalsOnly]_vars

\* A goal with a check-in, and getGoal answered 401 with no data.
C29_Witness ==
  /\ response.op = "getGoal" /\ response.code = 401
  /\ response.ret = <<>>
  /\ goal.exists /\ Len(goal.checkIns) > 0

---------------------------------------------------------------------------
(* Concurrent addCheckIn requests on one goal (goalController.js 196-251).  *)
(* The handler awaits HealthGoal.findById (line 203), runs lines 205-236 on *)
(* the document it holds in memory, and awaits goal.save() (line 238); the  *)
(* steps of other requests run between its awaits.  The schema is declared  *)
(* with {timestamps: true} only, so the documents carry mongoose's version  *)
(* key __v.  updateStreak sorts checkIns in place, which marks the whole    *)
(* array as set; save() of a document whose array is set sends              *)
(*   updateOne({_id, __v: <the version loaded>}, {$set ..., $inc {__v: 1}}) *)
(* and throws VersionError when no document matches, which the async        *)
(* handler turns into an error response.                                    *)

MaxRequests == 2

Requesters == 1 .. MaxRequests

ConcurrentDates == {24, 48}

ConcurrentCompleted == {"true", "false"}

ConcurrentValues == {Num(50), Num(100), Num(0 - 50)}

\* A document with its version key __v.
Versioned(g, v) ==
  [f \in DOMAIN g \cup {"version"} |-> IF f = "version" THEN v ELSE g[f]]

\* The stored goal the requests are about: an active daily goal of target
\* 100, with no check-in or with one of value 50 at day 0.
ConcurrentGoals ==
  LET fresh == StoredGoal("u1", "active", Num(100))
  IN  {Versioned(fresh, 0),
       Versioned(CheckedIn(fresh, 0, "false", Num(50)), 1)}

\* A request that has not yet reached findById holds no document.
NoDocument ==
  Versioned([StoredGoal("u1", "active", Undef) EXCEPT !.exists = FALSE], 0)

Request(date, completed, value) ==
  [pc |-> "start", date |-> date, completed |-> completed, value |-> value,
   doc |-> NoDocument, valid |-> TRUE, code |-> 0]

InitConcurrent ==
  /\ goal \in ConcurrentGoals
  /\ response = Respond("none", 0)
  /\ metrics = <<>>
  /\ requests \in [Requesters -> {Request(d, c, v) : d \in ConcurrentDates,
                                                      c \in ConcurrentCompleted,
                                                      v \in ConcurrentValues}]

\* const goal = await HealthGoal.findById(req.params.id)
load(r) ==
  /\ requests[r].pc = "start"
  /\ requests' = [requests EXCEPT ![r].pc = "loaded", ![r].doc = goal]
  /\ UNCHANGED <<goal, response, metrics>>

\* goal.checkIns.push(...); goal.progress = goal.calculateProgress();
\* goal.streak = goal.updateStreak(); the completion test: all on the
\* document in memory.
compute(r) ==
  /\ requests[r].pc = "loaded"
  /\ LET req == requests[r]
         pushed == Pushed(req.doc, req.date, req.completed, req.value)
     IN  requests' = [requests EXCEPT
                        ![r].pc = "computed",
                        ![r].valid = ValidProgress(calculateProgress(pushed)),
                        ![r].doc = CheckedIn(req.doc, req.date, req.completed, req.value)]
  /\ UNCHANGED <<goal, response, metrics>>

\* Mutant of save: the update is not conditioned on the version loaded.
saveUnversioned(r) ==
  /\ requests[r].pc = "computed"
  /\ LET req == requests[r]
         code == IF req.valid THEN 200 ELSE 500
     IN  /\ goal' = IF code = 200
                    THEN [req.doc EXCEPT !.version = goal.version + 1]
                    ELSE goal
         /\ requests' = [requests EXCEPT ![r].pc = "done", ![r].code = code]
         /\ response' = Respond("addCheckIn", code)
  /\ UNCHANGED metrics

\* await goal.save(): validation, then the update conditioned on the
\* version the document was loaded with.
save(r) ==
  /\ requests[r].pc = "computed"
  /\ LET req == requests[r]
         code == IF req.valid /\ goal.version = req.doc.version
                 THEN 200 ELSE 500
     IN  /\ goal' = IF code = 200
                    THEN [req.doc EXCEPT !.version = @ + 1]
                    ELSE goal
         /\ requests' = [requests EXCEPT ![r].pc = "done", ![r].code = code]
         /\ response' = Respond("addCheckIn", code)
  /\ UNCHANGED metrics

NextConcurrent ==
  \E r \in Requesters :
    \/ load(r)
    \/ compute(r)
    \/ save(r)

SpecConcurrent == InitConcurrent /\ [][NextConcurrent]_vars

\* The requests that have returned success.
Succeeded == {r \in Requesters : requests[r].pc = "done" /\ requests[r].code = 200}

\* The check-in a request pushes.
CheckInOf(r) ==
  [date |-> requests[r].date,
   completed |-> CastBoolean(requests[r].completed),
   value |-> requests[r].value]

C30_StaleSaveRefused ==
  \E r \in Requesters :
    /\ requests[r].pc = "done" /\ requests[r].code = 500
    /\ requests[r].valid
    /\ \E q \in Requesters \ {r} : requests[q].pc = "done" /\ requests[q].code = 200

====
